---- MODULE Spec2Model ----
(***************************************************************************)
(* Verification model of pattern-core's agent task orchestration core:     *)
(*   - TaskService (create_task / update_task / _planner) over the Task    *)
(*     and SubTask tables,                                                 *)
(*   - DataProviderAgentService.stream with StreamingCallbackHandler,      *)
(*   - the tool-set resolution of ConversationService.send_message.        *)
(* Each subsystem has its own specification over the shared variables.     *)
(***************************************************************************)
EXTENDS Integers, Sequences, FiniteSets, TLC

(***************************************************************************)
(* Bounds of the model.                                                    *)
(***************************************************************************)
MaxTasks == 2
MaxSteps == 2
MaxRows == 2

(***************************************************************************)
(* Enumerations.                                                           *)
(***************************************************************************)
TaskStatusEnum ==
    [INIT |-> "init", STARTED |-> "started", COMPLETED |-> "completed",
     FAILED |-> "failed", ACTION_REQUIRED |-> "action_required"]

AgentActionEnum ==
    [NO_ACTION |-> "no_action", INPUT_TEXT |-> "input_text",
     INPUT_MEDIA |-> "input_media"]

AgentActions ==
    {AgentActionEnum.NO_ACTION, AgentActionEnum.INPUT_TEXT,
     AgentActionEnum.INPUT_MEDIA}

(***************************************************************************)
(* Text is a sequence of one-character strings; str.strip() removes the    *)
(* leading and the trailing whitespace.                                    *)
(***************************************************************************)
RECURSIVE LStrip(_)
LStrip(s) ==
    IF s = << >> THEN << >>
    ELSE IF Head(s) = " " THEN LStrip(Tail(s)) ELSE s

RECURSIVE RStrip(_)
RStrip(s) ==
    IF s = << >> THEN << >>
    ELSE IF s[Len(s)] = " " THEN RStrip(SubSeq(s, 1, Len(s) - 1)) ELSE s

Strip(s) == RStrip(LStrip(s))

StepTexts == { <<"a">>, <<" ", "b", " ">> }
TaskTexts == { <<" ", "t">> }

\* The fields of PlanStep that _planner reads (tools is never read).
PlanStep == [task : StepTexts, action : AgentActions]

SeqsUpTo(S, n) == UNION { [1..k -> S] : k \in 0..n }

\* Plan.steps as the structured-output model may return it.
Plans == SeqsUpTo(PlanStep, MaxSteps)

TaskIds == 1..MaxTasks

NoCall == [op |-> "none"]

VARIABLES
    tasks,      \* Task table: id -> row, or "absent"
    subTasks,   \* SubTask table: rows in insertion order
    call        \* the last service call: its arguments and its outcome

taskVars == <<tasks, subTasks, call>>

Absent == [present |-> FALSE]

\* TaskRepository.get_by_id
get_by_id(tbl, id) == IF tbl[id].present THEN tbl[id] ELSE Absent

\* The sub-tasks of one task, in insertion order.
SubTasksOf(rows, id) == SelectSeq(rows, LAMBDA r : r.task_id = id)

ProjectIds == {"p1"}

\* The fields PlanStep declares (task, tools, action): a pydantic model raises
\* AttributeError on reading any other attribute.
PlanStepFields == {"task", "tools", "action"}

\* for step in plan.steps: if step.action != AgentActionEnum.NO_ACTION
ActionSteps(plan) ==
    { i \in 1..Len(plan) : plan[i].action # AgentActionEnum.NO_ACTION }

\* NewSubTask with the order taken from enumerate() as it is (0-based).
NewSubTask_ZeroBased(task_id, project_id, plan, index) ==
    [task_id |-> task_id, project_id |-> project_id,
     sub_task |-> Strip(plan[index + 1].task),
     status |-> "init", order |-> index]

\* SubTask(...) as create_sub_task builds it for step `index` (0-based) of the plan.
NewSubTask(task_id, project_id, plan, index) ==
    [task_id |-> task_id, project_id |-> project_id,
     sub_task |-> Strip(plan[index + 1].task),
     status |-> TaskStatusEnum.INIT, order |-> index + 1]

\* The rows the loop `for index, step in enumerate(plan.steps)` has committed
\* after n iterations: SubTaskRepository.create commits each row on its own.
CreatedSubTasks(task_id, project_id, plan, n) ==
    [i \in 1..n |-> NewSubTask(task_id, project_id, plan, i - 1)]

\* SubTaskService.create_sub_task raises unless the task exists and belongs
\* to the project.
CanCreateSubTask(tbl, task_id, project_id) ==
    /\ get_by_id(tbl, task_id).present
    /\ get_by_id(tbl, task_id).project_id = project_id

\* action_descriptions after the steps from `index` on, `count` entries being
\* written already: f"{_count}- " + step.action_description.strip() is
\* appended for each step whose action is not NO_ACTION.
RECURSIVE NumberedDescriptions(_, _, _)
NumberedDescriptions(plan, index, count) ==
    IF index > Len(plan) THEN << >>
    ELSE IF plan[index].action # AgentActionEnum.NO_ACTION
    THEN <<ToString(count + 1), "-", " ">>
            \o Strip(plan[index].action_description)
            \o NumberedDescriptions(plan, index + 1, count + 1)
    ELSE NumberedDescriptions(plan, index + 1, count)

\* A failure of planner.invoke that is caught and followed by a second call,
\* after which the task is marked.
PlanningFailure_Retried(tbl, rows, task_id) ==
    [tasks |-> [tbl EXCEPT ![task_id].status = TaskStatusEnum.ACTION_REQUIRED],
     subTasks |-> rows, outcome |-> "returned", sub_task_created |-> FALSE,
     planner_calls |-> 2, action_descriptions |-> << >>]

\* planner.invoke(...) raises: _planner has no handler around it and ends
\* there, after its one call.
PlanningFailure(tbl, rows, task_id) ==
    [tasks |-> tbl, subTasks |-> rows, outcome |-> "PlanningFailure",
     sub_task_created |-> FALSE, planner_calls |-> 1,
     action_descriptions |-> << >>]

(***************************************************************************)
(* TaskService._planner. invoked is whether planner.invoke returns a plan  *)
(* (plan) or raises. fail_at = k > 0 is the store failing the commit of    *)
(* the k-th sub-task (0: the store commits every row). The result is the   *)
(* tables after the call and what the caller sees: the returned dict, or   *)
(* the exception raised.                                                   *)
(***************************************************************************)
_planner(tbl, rows, task_id, project_id, plan, invoked, fail_at) ==
    LET needs == ActionSteps(plan) IN
    IF ~invoked
    THEN PlanningFailure(tbl, rows, task_id)
    ELSE IF needs # {} /\ "action_description" \notin PlanStepFields
    THEN \* line 50 reads step.action_description on the first such step
         [tasks |-> tbl, subTasks |-> rows,
          outcome |-> "AttributeError", sub_task_created |-> FALSE,
          planner_calls |-> 1,
          action_descriptions |-> << >>]
    ELSE IF needs = {}
    THEN IF Len(plan) > 0 /\ ~CanCreateSubTask(tbl, task_id, project_id)
         THEN [tasks |-> tbl, subTasks |-> rows,
               outcome |-> "Exception", sub_task_created |-> FALSE,
               planner_calls |-> 1,
          action_descriptions |-> << >>]
         ELSE IF fail_at \in 1..Len(plan)
         THEN \* db_session.commit() of row fail_at raises; the rows before it
              \* are committed already
              [tasks |-> tbl,
               subTasks |-> rows \o CreatedSubTasks(task_id, project_id, plan, fail_at - 1),
               outcome |-> "StoreError", sub_task_created |-> FALSE,
               planner_calls |-> 1,
          action_descriptions |-> << >>]
         ELSE [tasks |-> tbl,
               subTasks |-> rows \o CreatedSubTasks(task_id, project_id, plan, Len(plan)),
               outcome |-> "returned", sub_task_created |-> TRUE,
               planner_calls |-> 1,
          action_descriptions |-> << >>]
    ELSE [tasks |-> [tbl EXCEPT ![task_id].status = TaskStatusEnum.ACTION_REQUIRED],
          subTasks |-> rows,
          outcome |-> "returned", sub_task_created |-> FALSE,
          planner_calls |-> 1,
          action_descriptions |-> NumberedDescriptions(plan, 1, 0)]

\* The id the Task table gives the next row.
NewTaskId(tbl) ==
    CHOOSE id \in TaskIds :
        ~tbl[id].present /\ \A j \in TaskIds : j < id => tbl[j].present

\* What the model records of a service call: its arguments, its outcome and
\* the number of sub-task rows it has persisted.
CallRecord(op, task_id, plan, r, before) ==
    [op |-> op, task_id |-> task_id, plan |-> plan, outcome |-> r.outcome,
     sub_task_created |-> r.sub_task_created,
     persisted |-> Len(r.subTasks) - Len(before),
     planner_calls |-> r.planner_calls,
     action_descriptions |-> r.action_descriptions]

\* TaskService.create_task(db_session, project_id, user_id, task)
create_task(project_id, task, plan, invoked, fail_at) ==
    /\ \E id \in TaskIds : ~tasks[id].present
    /\ Len(subTasks) + Len(plan) <= MaxRows
    /\ LET id == NewTaskId(tasks)
           created == [tasks EXCEPT ![id] =
                          [present |-> TRUE, project_id |-> project_id,
                           task |-> Strip(task), status |-> TaskStatusEnum.INIT]]
           r == _planner(created, subTasks, id, project_id, plan, invoked, fail_at)
       IN /\ tasks' = r.tasks
          /\ subTasks' = r.subTasks
          /\ call' = CallRecord("create_task", id, plan, r, subTasks)

\* TaskService.update_task(db_session, task_id, task, user_id)
update_task(task_id, task, plan, invoked, fail_at) ==
    /\ Len(subTasks) + Len(plan) <= MaxRows
    /\ IF ~get_by_id(tasks, task_id).present
       THEN \* TaskRepository.update raises "Task not found"
            /\ UNCHANGED <<tasks, subTasks>>
            /\ call' = [op |-> "update_task", task_id |-> task_id, plan |-> plan,
                        outcome |-> "Exception", sub_task_created |-> FALSE,
                        persisted |-> 0, planner_calls |-> 0,
                        action_descriptions |-> << >>]
       ELSE LET updated == [tasks EXCEPT ![task_id].task = task]
                r == _planner(updated, subTasks, task_id,
                              updated[task_id].project_id, plan, invoked, fail_at)
            IN /\ tasks' = r.tasks
               /\ subTasks' = r.subTasks
               /\ call' = CallRecord("update_task", task_id, plan, r, subTasks)

(***************************************************************************)
(* DataProviderAgentService.stream and StreamingCallbackHandler.           *)
(***************************************************************************)
MaxEvents == 3
MaxTimeouts == 2
MaxTurns == 1

\* What the callback hooks receive: a token, or an agent action.
Events ==
    [type : {"token"}, data : {"x", "y"}]
        \cup [type : {"tool_start"}, tool : {"get_current_datetime"},
              tool_input : {"{}"}]

\* json.dumps(event) + "\n": the keys and values in insertion order, then the
\* line terminator.
json_line(event) ==
    IF event.type = "token"
    THEN <<"type", event.type, "data", event.data, "\n">>
    ELSE <<"type", event.type, "tool", event.tool,
           "tool_input", event.tool_input, "\n">>

\* The events one agent invocation emits through the hooks, in call order.
Scripts == SeqsUpTo(Events, MaxEvents)

VARIABLES
    queue,      \* StreamingCallbackHandler.queue
    script,     \* the events the running invocation emits
    emitted,    \* how many of them the hooks have been called with
    memory,     \* whether the service was built with a memory
    pstate,     \* the invocation: "idle", "running", "returned" or "failed", then
                \* task.done(): "done" with a result, "raised" with an exception
    cpc,        \* the position of the generator: idle, loop, poll, wait, yield, join,
                \* then finished, raised (by await task) or stopped
    yielded,    \* the items the generator has yielded
    timeouts,   \* asyncio.TimeoutError caught so far (counted up to MaxTimeouts)
    log,        \* the stored messages of the conversation (chat_history table)
    history,    \* the chat_history the running invocation was given
    prev        \* the invocation an earlier stream() on this engine started:
                \* [pstate, script, emitted]

streamVars == <<queue, script, emitted, memory, pstate, cpc, yielded, timeouts,
                log, history, prev>>

\* No earlier stream() on the engine.
NoPrev == [pstate |-> "idle", script |-> << >>, emitted |-> 0]

\* The turn of the invocation: the human message, then the AI answer.
Turn == <<[type |-> "human", content |-> "message"],
          [type |-> "ai", content |-> "output"]>>

\* The turn another invocation on the same conversation stores.
OtherTurn == <<[type |-> "human", content |-> "other message"],
               [type |-> "ai", content |-> "other output"]>>

\* add_messages that replaces the stored messages.
add_messages_Overwrite(stored, messages) == messages

\* PostgresChatMessageHistory.add_messages: rows are inserted after the
\* stored ones.
add_messages(stored, messages) == stored \o messages

\* put_nowait on a queue of one slot: an item that finds it taken is lost.
put_nowait_Bounded(q, item) == IF Len(q) >= 1 THEN q ELSE Append(q, item)

\* put_nowait on a LIFO queue.
put_nowait_Lifo(q, item) == <<item>> \o q

\* asyncio.Queue.put_nowait on the unbounded queue
put_nowait(q, item) == Append(q, item)

\* The event loop is free only while the generator is inside wait_for, at its
\* yield or awaiting the task: a task ends with its consumer.
Suspended_WhileIterated == cpc \in {"wait", "poll", "yield", "join"}

\* The generator is suspended (inside wait_for, at its yield, or awaiting the
\* task) or was stopped: only then the event loop runs other callbacks and
\* tasks.
Suspended == cpc \in {"wait", "poll", "yield", "join", "stopped"}

\* The loop condition without the test of task.done().
ContinueLoop_QueueOnly(p, q) == q # << >>

\* The loop condition without the test of the queue.
ContinueLoop_TaskOnly(p, q) == p \notin {"done", "raised"}

\* while not task.done() or not self.streaming_handler.queue.empty()
ContinueLoop(p, q) == p \notin {"done", "raised"} \/ q # << >>

\* stream(message): clear the leftovers, then start the invocation
\* (run_in_executor with a memory, asyncio.create_task without).
stream_start(events, mem) ==
    /\ cpc = "idle"
    /\ queue' = << >>
    /\ script' = events
    /\ emitted' = 0
    /\ memory' = mem
    /\ pstate' = "running"
    /\ cpc' = "loop"
    /\ yielded' = << >>
    /\ timeouts' = 0
    /\ history' = IF mem THEN log ELSE << >>
    /\ log' = log
    /\ prev' = prev

\* on_llm_new_token / on_agent_action called by the running invocation: on the
\* executor thread at any time, on the event loop only while the generator is
\* suspended.
producer_emit ==
    /\ pstate = "running"
    /\ emitted < Len(script)
    /\ memory \/ Suspended
    /\ queue' = put_nowait(queue, json_line(script[emitted + 1]))
    /\ emitted' = emitted + 1
    /\ UNCHANGED <<script, memory, pstate, cpc, yielded, timeouts, log, history, prev>>

\* The agent call returns; with a memory, RunnableWithMessageHistory stores
\* the turn as the call ends.
producer_return ==
    /\ pstate = "running"
    /\ emitted = Len(script)
    /\ memory \/ Suspended
    /\ pstate' = "returned"
    /\ log' = IF memory THEN add_messages(log, Turn) ELSE log
    /\ UNCHANGED <<queue, script, emitted, memory, cpc, yielded, timeouts, history, prev>>

\* The agent call raises: the exception is kept by the task / future.
producer_raise ==
    /\ pstate = "running"
    /\ memory \/ Suspended
    /\ pstate' = "failed"
    /\ UNCHANGED <<queue, script, emitted, memory, cpc, yielded, timeouts, log, history, prev>>

\* The event loop marks the task / executor future done.
task_done ==
    /\ pstate \in {"returned", "failed"}
    /\ Suspended
    /\ pstate' = IF pstate = "returned" THEN "done" ELSE "raised"
    /\ UNCHANGED <<queue, script, emitted, memory, cpc, yielded, timeouts, log, history, prev>>

\* The while condition of stream, then the call of wait_for(queue.get(), 0.1):
\* with an item in the queue get() returns it at once ("poll"), without one it
\* blocks on a getter future ("wait").
consumer_check ==
    /\ cpc = "loop"
    /\ cpc' = IF ~ContinueLoop(pstate, queue) THEN "join"
              ELSE IF queue = << >> THEN "wait" ELSE "poll"
    /\ UNCHANGED <<queue, script, emitted, memory, pstate, yielded, timeouts, log, history, prev>>

\* wait_for(queue.get(), timeout=0.1) returns an item, which is yielded.
consumer_get ==
    /\ cpc \in {"wait", "poll"}
    /\ queue # << >>
    /\ yielded' = Append(yielded, Head(queue))
    /\ queue' = Tail(queue)
    /\ cpc' = "yield"
    /\ UNCHANGED <<script, emitted, memory, pstate, timeouts, log, history, prev>>

\* wait_for raises asyncio.TimeoutError: the blocked get() did not return
\* within the poll interval. An item that arrived while the timer fired stays
\* in the queue.
consumer_timeout ==
    /\ cpc = "wait"
    /\ cpc' = "loop"
    /\ timeouts' = IF timeouts < MaxTimeouts THEN timeouts + 1 ELSE timeouts
    /\ UNCHANGED <<queue, script, emitted, memory, pstate, yielded, log, history, prev>>

\* The caller asks for the next item: the generator resumes after its yield.
consumer_resume ==
    /\ cpc = "yield"
    /\ cpc' = "loop"
    /\ UNCHANGED <<queue, script, emitted, memory, pstate, yielded, timeouts, log, history, prev>>

\* result = await task, after the loop: the result is dropped, an exception
\* of the invocation is raised to the caller of the generator.
consumer_join ==
    /\ cpc = "join"
    /\ pstate \in {"done", "raised"}
    /\ cpc' = IF pstate = "done" THEN "finished" ELSE "raised"
    /\ UNCHANGED <<queue, script, emitted, memory, pstate, yielded, timeouts, log, history, prev>>

\* The consumer stops iterating: it is cancelled inside wait_for or while
\* awaiting the task, or the generator is closed at its yield. stream has no
\* handler that cancels the invocation.
consumer_stop ==
    /\ cpc \in {"wait", "poll", "yield", "join"}
    /\ cpc' = "stopped"
    /\ UNCHANGED <<queue, script, emitted, memory, pstate, yielded, timeouts,
                   log, history, prev>>

\* Another invocation on the same conversation stores its turn.
other_turn ==
    /\ Len(log) < 2 * MaxTurns
    /\ log' = add_messages(log, OtherTurn)
    /\ UNCHANGED <<queue, script, emitted, memory, pstate, cpc, yielded, timeouts,
                   history, prev>>

\* A later stream(message) on the same engine, its generator of before
\* having ended or been stopped: the leftovers are cleared and a new
\* invocation starts; the one of before is not touched and keeps its hooks
\* on the same handler. The engine has one such invocation at most here.
stream_again(events) ==
    /\ cpc \in {"stopped", "finished", "raised"}
    /\ prev = NoPrev
    /\ prev' = [pstate |-> pstate, script |-> script, emitted |-> emitted]
    /\ queue' = << >>
    /\ script' = events
    /\ emitted' = 0
    /\ pstate' = "running"
    /\ cpc' = "loop"
    /\ yielded' = << >>
    /\ timeouts' = 0
    /\ history' = IF memory THEN log ELSE << >>
    /\ UNCHANGED <<memory, log>>

\* on_llm_new_token / on_agent_action called by the earlier invocation.
prev_emit ==
    /\ prev.pstate = "running"
    /\ prev.emitted < Len(prev.script)
    /\ memory \/ Suspended
    /\ queue' = put_nowait(queue, json_line(prev.script[prev.emitted + 1]))
    /\ prev' = [prev EXCEPT !.emitted = prev.emitted + 1]
    /\ UNCHANGED <<script, emitted, memory, pstate, cpc, yielded, timeouts, log,
                   history>>

\* The agent call of the earlier invocation returns.
prev_return ==
    /\ prev.pstate = "running"
    /\ prev.emitted = Len(prev.script)
    /\ memory \/ Suspended
    /\ prev' = [prev EXCEPT !.pstate = "returned"]
    /\ log' = IF memory /\ Len(log) < 2 * MaxTurns THEN add_messages(log, Turn) ELSE log
    /\ UNCHANGED <<queue, script, emitted, memory, pstate, cpc, yielded, timeouts,
                   history>>

Consumer ==
    consumer_check \/ consumer_get \/ consumer_timeout \/ consumer_resume
        \/ consumer_join

(***************************************************************************)
(* Tool-set resolution of ConversationService.send_message.                *)
(***************************************************************************)
DefaultToolName == "get_current_datetime"

\* The @tool functions of src/agent/tools/agentic, by defining file. Two files
\* define a tool of the same name.
AgenticTools ==
    { [name |-> "get_current_datetime", file |-> "datetime_tool.py"],
      [name |-> "ethereum_blockchain_tool", file |-> "etch_blockchain_tool.py"],
      [name |-> "ethereum_blockchain_tool", file |-> "eth_blockchain_tool.py"],
      [name |-> "web_search_tool", file |-> "web_search_tool.py"] }

\* Tool.function_name of the rows of the Tool table: the registry knows no
\* handler for get_weather, and none whose name is spelt Web_Search_Tool.
ToolFunctionNames ==
    {"get_current_datetime", "ethereum_blockchain_tool", "web_search_tool",
     "get_weather", "Web_Search_Tool"}

Range(f) == { f[i] : i \in DOMAIN f }

\* What get_all_tools() can return: the handlers of the files found under
\* <cwd>/src/agent/tools/agentic, in the order os.walk lists the files.
RegistryContents ==
    { r \in SeqsUpTo(AgenticTools, Cardinality(AgenticTools)) :
        \A i, j \in DOMAIN r : i # j => r[i] # r[j] }

ConversationIds == {"c1", "c2", "c3"}

\* Conversation.project_id; conversation c2 does not exist, and the project
\* p2 of conversation c3 is no row of Project.
ConversationProject ==
    [c \in ConversationIds |->
        IF c = "c1" THEN "p1" ELSE IF c = "c2" THEN "None" ELSE "p2"]

UserIds == {"u1", "u2"}

\* Conversation.user_id of the conversation that exists.
ConversationOwner == [c \in ConversationIds |-> "u1"]

MaxToolCalls == 2

\* result["intermediate_steps"]: the (AgentAction, observation) pairs of one
\* agent invocation, in invocation order.
IntermediateSteps ==
    SeqsUpTo([tool : {"get_current_datetime"}, tool_input : {"{}"},
              output : {"o1", "o2"}], MaxToolCalls)

\* What one invocation of the AgentExecutor returns.
Runs == [output : {"x"}, intermediate_steps : IntermediateSteps]

VARIABLES
    registry,       \* what get_all_tools() returns
    projectTools,   \* project.tools: the configured function names
    sent            \* the last send_message: its outcome and the tools given to the agent

toolVars == <<registry, projectTools, sent>>

\* ProjectRepository.get_tools_for_project, reduced to the names send_message reads.
get_project_tools(project_id) == projectTools[project_id]

\* The comparison of names ignoring letter case.
ConfiguredTools_IgnoreCase(reg, tool_names) ==
    LET lower(name) ==
            IF name = "Web_Search_Tool" THEN "web_search_tool" ELSE name
    IN SelectSeq(reg, LAMBDA tool :
           lower(tool.name) \in { lower(n) : n \in tool_names })

\* A not-found error raised only once the memory was opened.
Failed_AfterMemory(user_id, conversation_id, streaming, run, outcome, tool_names, tools, mem) ==
    [op |-> "send_message", user_id |-> user_id,
     conversation_id |-> conversation_id, stream |-> streaming, run |-> run,
     outcome |-> outcome, tool_names |-> tool_names, tools |-> tools,
     memory |-> conversation_id, invoked |-> FALSE, tokens |-> << >>,
     items |-> << >>]

\* A handler for every configured name, whether the registry has one or not.
ConfiguredTools_ByName(reg, tool_names) ==
    LET known == SelectSeq(reg, LAMBDA tool : tool.name \in tool_names)
        unknown == { n \in tool_names : \A i \in DOMAIN reg : reg[i].name # n }
    IN IF unknown = {} THEN known
       ELSE known \o <<[name |-> CHOOSE n \in unknown : TRUE, file |-> "None"]>>

\* tools = [tool for tool in get_all_tools() if tool.name in tool_names]
ConfiguredTools(reg, tool_names) ==
    SelectSeq(reg, LAMBDA tool : tool.name \in tool_names)

\* next((tool for tool in get_all_tools() if tool.name == "get_current_datetime"), None)
FindDefaultTool(reg) ==
    LET hits == SelectSeq(reg, LAMBDA tool : tool.name = DefaultToolName)
    IN IF hits = << >> THEN << >> ELSE <<Head(hits)>>

\* The tool list send_message hands to DataProviderAgentService: reg is what
\* the first get_all_tools() returns, rescan what the second one does.
ResolveTools(reg, rescan, tool_names) ==
    LET tools == ConfiguredTools(reg, tool_names)
    IN IF Len(tools) = 0 THEN tools \o FindDefaultTool(rescan) ELSE tools

\* The attributes DataProviderAgentService.__init__ has set when it calls
\* init_llm: streaming_handler only if streaming.
AttributesSet(streaming) ==
    {"tools", "memory", "streaming"}
        \cup (IF streaming THEN {"streaming_handler"} ELSE {})

\* DataProviderAgentService.__init__: callbacks=[self.streaming_handler] reads
\* the attribute in either mode.
DataProviderAgentService(streaming) ==
    IF "streaming_handler" \in AttributesSet(streaming)
    THEN "agent" ELSE "AttributeError"

\* What agent.stream(message) yields for an invocation: a line per agent
\* action and per token. The value of `result = await task` is dropped.
stream(run) ==
    [i \in 1..Len(run.intermediate_steps) |->
        json_line([type |-> "tool_start",
                   tool |-> run.intermediate_steps[i].tool,
                   tool_input |-> run.intermediate_steps[i].tool_input])]
      \o <<json_line([type |-> "token", data |-> run.output])>>

\* The list send_message builds from result["intermediate_steps"].
StepDicts(steps) ==
    [i \in 1..Len(steps) |->
        [function_name |-> steps[i].tool, arguments |-> steps[i].tool_input,
         output |-> steps[i].output]]

\* A send_message that raises before the agent is used.
Failed(user_id, conversation_id, streaming, run, outcome, tool_names, tools, mem) ==
    [op |-> "send_message", user_id |-> user_id,
     conversation_id |-> conversation_id, stream |-> streaming, run |-> run,
     outcome |-> outcome, tool_names |-> tool_names, tools |-> tools,
     memory |-> mem, invoked |-> FALSE, tokens |-> << >>, items |-> << >>]

\* ConversationService.send_message. user_id is never read. rescan is what
\* the second get_all_tools() returns: the directory is listed again.
send_message(user_id, conversation_id, streaming, run, rescan) ==
    LET project_id == ConversationProject[conversation_id]
        tool_names == get_project_tools(project_id)
        tools == ResolveTools(registry, rescan, tool_names)
    IN
    /\ sent' =
          IF project_id = "None"
          THEN \* raise Exception("Project not found")
               Failed(user_id, conversation_id, streaming, run, "Exception",
                      {}, << >>, "None")
          ELSE IF project_id \notin DOMAIN projectTools
          THEN \* get_tools_for_project raises ValueError("Project ... not found.")
               Failed(user_id, conversation_id, streaming, run, "ValueError",
                      {}, << >>, "None")
          ELSE IF DataProviderAgentService(streaming) # "agent"
          THEN \* get_memory(conversation_id) was called, the constructor raises
               Failed(user_id, conversation_id, streaming, run,
                      DataProviderAgentService(streaming), tool_names, tools,
                      conversation_id)
          ELSE [op |-> "send_message", user_id |-> user_id,
                conversation_id |-> conversation_id, stream |-> streaming,
                run |-> run, outcome |-> "agent",
                tool_names |-> tool_names, tools |-> tools,
                memory |-> conversation_id, invoked |-> TRUE,
                tokens |-> IF streaming THEN stream(run) ELSE << >>,
                items |-> IF streaming THEN << >>
                          ELSE <<[response |-> run.output,
                                  intermediate_steps |->
                                      StepDicts(run.intermediate_steps)]>>]
    /\ registry' = IF project_id \in DOMAIN projectTools THEN rescan ELSE registry
    /\ UNCHANGED projectTools

\* ProjectRepository.modify_project_tools: project.tools = tools
modify_project_tools(project_id, names) ==
    /\ projectTools' = [projectTools EXCEPT ![project_id] = names]
    /\ UNCHANGED <<registry, sent>>

(***************************************************************************)
(* Calls of tool handlers through their decorators: handle_exceptions and  *)
(* timeout of agent/tools/shared_tools.py, time_limit of                   *)
(* agentflow/utils/shared_tools.py.                                        *)
(***************************************************************************)
MaxBodySteps == 2

\* The decorators between @tool and the body of each handler, outermost first.
Decorators(tool) ==
    IF tool.file = "datetime_tool.py" THEN << >>
    ELSE IF tool.file = "etch_blockchain_tool.py" THEN <<"handle_exceptions", "timeout">>
    ELSE IF tool.file = "agentflow/utils/shared_tools.py" THEN <<"time_limit">>
    ELSE <<"handle_exceptions">>

\* A function decorated with time_limit; no handler of the registry is.
TimeLimited == [name |-> "func", file |-> "agentflow/utils/shared_tools.py"]

Callables == AgenticTools \cup {TimeLimited}

\* What a body does: it returns, raises an Exception, raises an exception
\* that derives from BaseException only (KeyboardInterrupt, SystemExit), or
\* never finishes.
Behaviours == {"return", "Exception", "BaseException", "hang"}

Nothing == [kind |-> "none", class |-> "None", message |-> "None"]

Returned == [kind |-> "value", class |-> "None", message |-> "None"]

Raised(class, message) == [kind |-> "exception", class |-> class, message |-> message]

\* raise TimeoutException(f'Function timed out after {seconds} seconds')
TimeoutException == Raised("TimeoutException", "Function timed out after 60 seconds")

\* raise TimeoutError(f"Function '{func.__name__}' timed out after {seconds} seconds.")
TimeoutError == Raised("TimeoutError", "Function 'func' timed out after 60 seconds.")

\* What the body produces where it runs.
BodyOutcome(behaviour) ==
    IF behaviour = "return" THEN Returned ELSE Raised(behaviour, "body failed")

\* except Exception: the classes the handlers of the decorators catch.
IsException(outcome) ==
    outcome.kind = "exception" /\ outcome.class # "BaseException"

\* A wrapper that lets every exception through.
handle_exceptions_Reraise(outcome) == outcome

\* handle_exceptions: return f"Error: {str(e)}, Class: {e.__class__.__name__}"
handle_exceptions(outcome) ==
    IF IsException(outcome)
    THEN [kind |-> "string", class |-> outcome.class, message |-> outcome.message]
    ELSE outcome

NoInvocation ==
    [tool |-> [name |-> "None", file |-> "None"], behaviour |-> "None",
     at_join |-> "None"]

\* The decorators outside the innermost one, applied to what it hands up.
AtBoundary(tool, outcome) ==
    IF Decorators(tool) # << >> /\ Head(Decorators(tool)) = "handle_exceptions"
    THEN handle_exceptions(outcome)
    ELSE outcome

\* The strategy that runs the body in a context of its own, if any.
Isolation(tool) ==
    IF \E i \in DOMAIN Decorators(tool) : Decorators(tool)[i] = "timeout" THEN "process"
    ELSE IF \E i \in DOMAIN Decorators(tool) : Decorators(tool)[i] = "time_limit" THEN "thread"
    ELSE "none"

VARIABLES
    inv,            \* the call under way: [tool, behaviour], and at_join: what
                    \* the context was doing when the join came back
    ipc,            \* the caller: idle, join, check, blocked, returned
    wstate,         \* the process / thread of the body: none, running, stored, exited, terminated
    bsteps,         \* steps the body has taken in that context (up to MaxBodySteps)
    result_queue,   \* result_queue of timeout, result_container of time_limit
    received        \* what crossed the boundary of the handler

invokeVars == <<inv, ipc, wstate, bsteps, result_queue, received>>

\* The agent loop calls a handler. Without timeout or time_limit the body runs
\* on the caller's thread; with one, wrapper starts the process / thread and
\* joins it with the budget.
invoke_tool(tool, behaviour) ==
    /\ ipc = "idle"
    /\ inv' = [tool |-> tool, behaviour |-> behaviour, at_join |-> "None"]
    /\ IF Isolation(tool) = "none"
       THEN /\ ipc' = IF behaviour = "hang" THEN "blocked" ELSE "returned"
            /\ received' = IF behaviour = "hang" THEN received
                           ELSE AtBoundary(tool, BodyOutcome(behaviour))
            /\ wstate' = wstate
       ELSE /\ ipc' = "join"
            /\ received' = received
            /\ wstate' = "running"
    /\ UNCHANGED <<bsteps, result_queue>>

\* The body takes a step in its process / thread.
worker_step ==
    /\ wstate = "running"
    /\ bsteps < MaxBodySteps
    /\ bsteps' = bsteps + 1
    /\ UNCHANGED <<inv, ipc, wstate, result_queue, received>>

\* worker / target: the body ends; its result or its Exception is stored.
\* An exception outside Exception is not caught: the context dies with
\* nothing stored.
worker_put ==
    /\ wstate = "running"
    /\ inv.behaviour # "hang"
    /\ IF IsException(BodyOutcome(inv.behaviour)) \/ inv.behaviour = "return"
       THEN /\ result_queue' = Append(result_queue, BodyOutcome(inv.behaviour))
            /\ wstate' = "stored"
       ELSE /\ result_queue' = result_queue
            /\ wstate' = "exited"
    /\ UNCHANGED <<inv, ipc, bsteps, received>>

\* The process / thread ends after storing.
worker_exit ==
    /\ wstate = "stored"
    /\ wstate' = "exited"
    /\ UNCHANGED <<inv, ipc, bsteps, result_queue, received>>

\* process.join(timeout=seconds) / thread.join(seconds) returns because the
\* context has ended.
join_returns ==
    /\ ipc = "join"
    /\ wstate = "exited"
    /\ ipc' = "check"
    /\ inv' = [inv EXCEPT !.at_join = wstate]
    /\ UNCHANGED <<wstate, bsteps, result_queue, received>>

\* ... or because the budget has elapsed.
join_expires ==
    /\ ipc = "join"
    /\ wstate # "exited"
    /\ ipc' = "check"
    /\ inv' = [inv EXCEPT !.at_join = wstate]
    /\ UNCHANGED <<wstate, bsteps, result_queue, received>>

\* What the wrapper of timeout / time_limit hands up after the join.
AfterJoin(isolation, alive, stored) ==
    IF alive
    THEN IF isolation = "process" THEN TimeoutException ELSE TimeoutError
    ELSE IF stored # << >> THEN Head(stored)
    ELSE IF isolation = "process" THEN TimeoutException ELSE Returned

\* process.terminate() is called on a live process; no call stops a thread.
terminate(isolation, w) ==
    IF isolation = "process" /\ w \in {"running", "stored"} THEN "terminated" ELSE w

\* The rest of wrapper: is_alive(), terminate() and join() for the process,
\* the read of the stored result, and the decorators outside.
wrapper_finish ==
    /\ ipc = "check"
    /\ wstate' = terminate(Isolation(inv.tool), wstate)
    /\ received' = AtBoundary(inv.tool,
                      AfterJoin(Isolation(inv.tool),
                                wstate \in {"running", "stored"}, result_queue))
    /\ result_queue' = IF Isolation(inv.tool) = "process" /\ wstate = "exited"
                            /\ result_queue # << >>
                        THEN Tail(result_queue) ELSE result_queue
    /\ ipc' = "returned"
    /\ UNCHANGED <<inv, bsteps>>

(***************************************************************************)
(* MemoryService.__new__ called from several threads.                      *)
(***************************************************************************)
MaxThreads == 3

Threads == 1..MaxThreads

VARIABLES
    MemoryService,  \* the class: _instance ("None", "bare" once the object is
                    \* made, "connected" once its connection attribute is set),
                    \* _lock (0 or the thread holding it), and how many objects
                    \* and connections were made
    constructing    \* where each thread is inside MemoryService()

memVars == <<MemoryService, constructing>>

\* The class as defined: no instance, the lock free.
ClassDefined ==
    [_instance |-> "None", _lock |-> 0, instances |-> 0, connections |-> 0]

\* with cls._lock: the lock can be taken.
LockFree(cls) == cls._lock = 0

\* MemoryService() is called: the connection string is built.
new_call(t) ==
    /\ constructing[t] = "idle"
    /\ constructing' = [constructing EXCEPT ![t] = "check"]
    /\ UNCHANGED MemoryService

\* if not cls._instance, read without the lock
new_check(t) ==
    /\ constructing[t] = "check"
    /\ constructing' = [constructing EXCEPT ![t] =
            IF MemoryService._instance = "None" THEN "lock" ELSE "create_tables"]
    /\ UNCHANGED MemoryService

\* with cls._lock
new_acquire(t) ==
    /\ constructing[t] = "lock"
    /\ LockFree(MemoryService)
    /\ MemoryService' = [MemoryService EXCEPT !._lock = t]
    /\ constructing' = [constructing EXCEPT ![t] = "recheck"]

\* if not cls._instance, under the lock; the lock is released on leaving the
\* with block.
new_recheck(t) ==
    /\ constructing[t] = "recheck"
    /\ IF MemoryService._instance = "None"
       THEN /\ constructing' = [constructing EXCEPT ![t] = "new"]
            /\ UNCHANGED MemoryService
       ELSE /\ constructing' = [constructing EXCEPT ![t] = "create_tables"]
            /\ MemoryService' = [MemoryService EXCEPT !._lock = 0]

\* cls._instance = super().__new__(cls): the class attribute holds the object
\* before the object has a connection.
new_instance(t) ==
    /\ constructing[t] = "new"
    /\ MemoryService' = [MemoryService EXCEPT
            !._instance = "bare", !.instances = MemoryService.instances + 1]
    /\ constructing' = [constructing EXCEPT ![t] = "connect"]

\* cls._instance.connection = psycopg.connect(connection_string), then the
\* end of the with block.
new_connect(t) ==
    /\ constructing[t] = "connect"
    /\ MemoryService' = [MemoryService EXCEPT
            !._instance = "connected",
            !.connections = MemoryService.connections + 1,
            !._lock = 0]
    /\ constructing' = [constructing EXCEPT ![t] = "create_tables"]

\* PostgresChatMessageHistory.create_tables(cls._instance.connection, ...) and
\* return cls._instance: reading the attribute of an object that has none
\* raises AttributeError.
new_create_tables(t) ==
    /\ constructing[t] = "create_tables"
    /\ constructing' = [constructing EXCEPT ![t] =
            IF MemoryService._instance = "connected"
            THEN "returned" ELSE "AttributeError"]
    /\ UNCHANGED MemoryService

vars == <<tasks, subTasks, call, queue, script, emitted, memory, pstate, cpc,
          yielded, timeouts, log, history, prev, registry, projectTools, sent, inv, ipc, wstate,
          bsteps, result_queue, received, MemoryService, constructing>>

(***************************************************************************)
(* Specifications.                                                         *)
(***************************************************************************)
\* Task decomposition over a store that commits every row.
NextTask ==
    \/ \E p \in ProjectIds, t \in TaskTexts, plan \in Plans :
          create_task(p, t, plan, TRUE, 0) /\ UNCHANGED <<streamVars, toolVars, invokeVars, memVars>>
    \/ \E id \in TaskIds, t \in TaskTexts, plan \in Plans :
          update_task(id, t, plan, TRUE, 0) /\ UNCHANGED <<streamVars, toolVars, invokeVars, memVars>>

\* The state after construction: no task, a fresh handler queue and no stream
\* started, no tool configured on the project.
Init ==
    /\ tasks = [id \in TaskIds |-> Absent]
    /\ subTasks = << >>
    /\ call = NoCall
    /\ queue = << >>
    /\ script = << >>
    /\ emitted = 0
    /\ memory = FALSE
    /\ pstate = "idle"
    /\ cpc = "idle"
    /\ yielded = << >>
    /\ timeouts = 0
    /\ log = << >>
    /\ history = << >>
    /\ prev = NoPrev
    /\ registry = << >>
    /\ projectTools = [p \in ProjectIds |-> {}]
    /\ sent = NoCall
    /\ inv = NoInvocation
    /\ ipc = "idle"
    /\ wstate = "none"
    /\ bsteps = 0
    /\ result_queue = << >>
    /\ received = Nothing
    /\ MemoryService = ClassDefined
    /\ constructing = [t \in Threads |-> "idle"]

SpecTask == Init /\ [][NextTask]_vars

\* Task decomposition over a store whose commit of a sub-task row may fail.
NextTaskFault ==
    \/ \E p \in ProjectIds, t \in TaskTexts, plan \in Plans :
          \E k \in 0..Len(plan) :
          create_task(p, t, plan, TRUE, k) /\ UNCHANGED <<streamVars, toolVars, invokeVars, memVars>>
    \/ \E id \in TaskIds, t \in TaskTexts, plan \in Plans :
          \E k \in 0..Len(plan) :
          update_task(id, t, plan, TRUE, k) /\ UNCHANGED <<streamVars, toolVars, invokeVars, memVars>>

SpecTaskFault == Init /\ [][NextTaskFault]_vars

\* Task decomposition with a planner whose call may raise: the plan of a
\* raising call is no plan.
NextTaskPlanner ==
    \/ \E p \in ProjectIds, t \in TaskTexts, plan \in Plans :
          create_task(p, t, plan, TRUE, 0) /\ UNCHANGED <<streamVars, toolVars, invokeVars, memVars>>
    \/ \E p \in ProjectIds, t \in TaskTexts :
          create_task(p, t, << >>, FALSE, 0) /\ UNCHANGED <<streamVars, toolVars, invokeVars, memVars>>
    \/ \E id \in TaskIds, t \in TaskTexts, plan \in Plans :
          update_task(id, t, plan, TRUE, 0) /\ UNCHANGED <<streamVars, toolVars, invokeVars, memVars>>
    \/ \E id \in TaskIds, t \in TaskTexts :
          update_task(id, t, << >>, FALSE, 0) /\ UNCHANGED <<streamVars, toolVars, invokeVars, memVars>>

SpecTaskPlanner == Init /\ [][NextTaskPlanner]_vars

\* The statuses of a Task row found in the table at start.
StoredStatuses == {TaskStatusEnum.INIT, TaskStatusEnum.ACTION_REQUIRED}

\* As Init, over a Task table that holds a row already.
InitStored ==
    /\ tasks \in { [id \in TaskIds |->
                      IF id = 1
                      THEN [present |-> TRUE, project_id |-> "p1",
                            task |-> <<"t">>, status |-> s]
                      ELSE Absent] : s \in StoredStatuses }
    /\ subTasks = << >>
    /\ call = NoCall
    /\ queue = << >>
    /\ script = << >>
    /\ emitted = 0
    /\ memory = FALSE
    /\ pstate = "idle"
    /\ cpc = "idle"
    /\ yielded = << >>
    /\ timeouts = 0
    /\ log = << >>
    /\ history = << >>
    /\ prev = NoPrev
    /\ registry = << >>
    /\ projectTools = [p \in ProjectIds |-> {}]
    /\ sent = NoCall
    /\ inv = NoInvocation
    /\ ipc = "idle"
    /\ wstate = "none"
    /\ bsteps = 0
    /\ result_queue = << >>
    /\ received = Nothing
    /\ MemoryService = ClassDefined
    /\ constructing = [t \in Threads |-> "idle"]

SpecTaskStored == InitStored /\ [][NextTask]_vars

\* One streaming invocation.
NextStream ==
    \/ \E events \in Scripts, mem \in BOOLEAN :
          stream_start(events, mem) /\ UNCHANGED <<taskVars, toolVars, invokeVars, memVars>>
    \/ producer_emit /\ UNCHANGED <<taskVars, toolVars, invokeVars, memVars>>
    \/ producer_return /\ UNCHANGED <<taskVars, toolVars, invokeVars, memVars>>
    \/ task_done /\ UNCHANGED <<taskVars, toolVars, invokeVars, memVars>>
    \/ consumer_check /\ UNCHANGED <<taskVars, toolVars, invokeVars, memVars>>
    \/ consumer_get /\ UNCHANGED <<taskVars, toolVars, invokeVars, memVars>>
    \/ consumer_timeout /\ UNCHANGED <<taskVars, toolVars, invokeVars, memVars>>
    \/ consumer_resume /\ UNCHANGED <<taskVars, toolVars, invokeVars, memVars>>
    \/ consumer_join /\ UNCHANGED <<taskVars, toolVars, invokeVars, memVars>>

SpecStream == Init /\ [][NextStream]_vars

\* The event loop runs every ready callback and the executor thread runs: each
\* enabled step of the invocation and of an iterated generator is taken.
FairStream ==
    /\ WF_vars(producer_emit /\ UNCHANGED <<taskVars, toolVars, invokeVars, memVars>>)
    /\ WF_vars(producer_return /\ UNCHANGED <<taskVars, toolVars, invokeVars, memVars>>)
    /\ WF_vars(task_done /\ UNCHANGED <<taskVars, toolVars, invokeVars, memVars>>)
    /\ WF_vars(Consumer /\ UNCHANGED <<taskVars, toolVars, invokeVars, memVars>>)

FairSpecStream == SpecStream /\ FairStream

\* One streaming invocation whose agent call may raise.
NextStreamFail ==
    \/ NextStream
    \/ producer_raise /\ UNCHANGED <<taskVars, toolVars, invokeVars, memVars>>

SpecStreamFail == Init /\ [][NextStreamFail]_vars

\* Whenever the generator suspends in wait_for the event loop runs its ready
\* callbacks, the completion of the task among them: a completion that is
\* ready again and again is run.
FairStreamFail ==
    /\ FairStream
    /\ SF_vars(task_done /\ UNCHANGED <<taskVars, toolVars, invokeVars, memVars>>)

FairSpecStreamFail == SpecStreamFail /\ FairStreamFail

\* One streaming invocation on a conversation other invocations write to,
\* with a consumer that may stop iterating.
NextStreamStop ==
    \/ NextStream
    \/ consumer_stop /\ UNCHANGED <<taskVars, toolVars, invokeVars, memVars>>
    \/ other_turn /\ UNCHANGED <<taskVars, toolVars, invokeVars, memVars>>

SpecStreamStop == Init /\ [][NextStreamStop]_vars

\* The second invocations of an engine.
FollowUps == { s \in Scripts : Len(s) <= 1 }

\* Two stream() calls on one engine, the consumer of the first having stopped
\* or finished.
NextStreamReuse ==
    \/ NextStream
    \/ consumer_stop /\ UNCHANGED <<taskVars, toolVars, invokeVars, memVars>>
    \/ \E events \in FollowUps :
          stream_again(events) /\ UNCHANGED <<taskVars, toolVars, invokeVars, memVars>>
    \/ prev_emit /\ UNCHANGED <<taskVars, toolVars, invokeVars, memVars>>
    \/ prev_return /\ UNCHANGED <<taskVars, toolVars, invokeVars, memVars>>

SpecStreamReuse == Init /\ [][NextStreamReuse]_vars

\* The executor thread and the event loop's task run whether or not the
\* generator is iterated.
FairProducer ==
    /\ WF_vars(producer_emit /\ UNCHANGED <<taskVars, toolVars, invokeVars, memVars>>)
    /\ WF_vars(producer_return /\ UNCHANGED <<taskVars, toolVars, invokeVars, memVars>>)

FairSpecStreamStop == SpecStreamStop /\ FairProducer

\* The invocation the specifications of tool resolution use.
FixedRuns == {[output |-> "x", intermediate_steps |-> << >>]}

\* Tool-set resolution of a streaming send_message over a directory that does
\* not change.
NextTools ==
    \/ \E u \in UserIds, c \in ConversationIds, run \in FixedRuns :
          send_message(u, c, TRUE, run, registry)
              /\ UNCHANGED <<taskVars, streamVars, invokeVars, memVars>>
    \/ \E p \in ProjectIds, names \in SUBSET ToolFunctionNames :
          modify_project_tools(p, names) /\ UNCHANGED <<taskVars, streamVars, invokeVars, memVars>>

\* As Init, with the registry any content get_all_tools() can return.
InitTools ==
    /\ tasks = [id \in TaskIds |-> Absent]
    /\ subTasks = << >>
    /\ call = NoCall
    /\ queue = << >>
    /\ script = << >>
    /\ emitted = 0
    /\ memory = FALSE
    /\ pstate = "idle"
    /\ cpc = "idle"
    /\ yielded = << >>
    /\ timeouts = 0
    /\ log = << >>
    /\ history = << >>
    /\ prev = NoPrev
    /\ registry \in RegistryContents
    /\ projectTools = [p \in ProjectIds |-> {}]
    /\ sent = NoCall
    /\ inv = NoInvocation
    /\ ipc = "idle"
    /\ wstate = "none"
    /\ bsteps = 0
    /\ result_queue = << >>
    /\ received = Nothing
    /\ MemoryService = ClassDefined
    /\ constructing = [t \in Threads |-> "idle"]

SpecTools == InitTools /\ [][NextTools]_vars

\* The registry with every handler of the directory.
FullRegistry ==
    CHOOSE r \in RegistryContents : Len(r) = Cardinality(AgenticTools)

\* As Init, with every handler file in the tools directory.
InitChat ==
    /\ tasks = [id \in TaskIds |-> Absent]
    /\ subTasks = << >>
    /\ call = NoCall
    /\ queue = << >>
    /\ script = << >>
    /\ emitted = 0
    /\ memory = FALSE
    /\ pstate = "idle"
    /\ cpc = "idle"
    /\ yielded = << >>
    /\ timeouts = 0
    /\ log = << >>
    /\ history = << >>
    /\ prev = NoPrev
    /\ registry = FullRegistry
    /\ projectTools = [p \in ProjectIds |-> {}]
    /\ sent = NoCall
    /\ inv = NoInvocation
    /\ ipc = "idle"
    /\ wstate = "none"
    /\ bsteps = 0
    /\ result_queue = << >>
    /\ received = Nothing
    /\ MemoryService = ClassDefined
    /\ constructing = [t \in Threads |-> "idle"]

\* What a later listing of the directory returns once files were removed or
\* put back: no handler, one handler, or all of them.
Rescans == { r \in RegistryContents : Len(r) <= 1 } \cup {FullRegistry}

\* As NextTools, with the files under the tools directory changing while
\* send_message runs.
NextRescan ==
    \/ \E u \in UserIds, c \in ConversationIds, run \in FixedRuns :
          \E rescan \in Rescans :
          send_message(u, c, TRUE, run, rescan)
              /\ UNCHANGED <<taskVars, streamVars, invokeVars, memVars>>
    \/ \E p \in ProjectIds, names \in SUBSET ToolFunctionNames :
          modify_project_tools(p, names)
              /\ UNCHANGED <<taskVars, streamVars, invokeVars, memVars>>

SpecRescan == InitChat /\ [][NextRescan]_vars

\* send_message by any user, on any conversation, in either mode.
NextChat ==
    \/ \E u \in UserIds, c \in ConversationIds, streaming \in BOOLEAN, run \in Runs :
          send_message(u, c, streaming, run, registry)
              /\ UNCHANGED <<taskVars, streamVars, invokeVars, memVars>>
    \/ \E p \in ProjectIds, names \in SUBSET ToolFunctionNames :
          modify_project_tools(p, names)
              /\ UNCHANGED <<taskVars, streamVars, invokeVars, memVars>>

SpecChat == InitChat /\ [][NextChat]_vars

\* Threads constructing MemoryService, each once.
NextMemory ==
    \/ \E t \in Threads : new_call(t)
          /\ UNCHANGED <<taskVars, streamVars, toolVars, invokeVars>>
    \/ \E t \in Threads : new_check(t)
          /\ UNCHANGED <<taskVars, streamVars, toolVars, invokeVars>>
    \/ \E t \in Threads : new_acquire(t)
          /\ UNCHANGED <<taskVars, streamVars, toolVars, invokeVars>>
    \/ \E t \in Threads : new_recheck(t)
          /\ UNCHANGED <<taskVars, streamVars, toolVars, invokeVars>>
    \/ \E t \in Threads : new_instance(t)
          /\ UNCHANGED <<taskVars, streamVars, toolVars, invokeVars>>
    \/ \E t \in Threads : new_connect(t)
          /\ UNCHANGED <<taskVars, streamVars, toolVars, invokeVars>>
    \/ \E t \in Threads : new_create_tables(t)
          /\ UNCHANGED <<taskVars, streamVars, toolVars, invokeVars>>

SpecMemory == Init /\ [][NextMemory]_vars

\* One call of a handler, or of a function under time_limit.
NextInvoke ==
    \/ \E tool \in Callables, behaviour \in Behaviours :
          invoke_tool(tool, behaviour) /\ UNCHANGED <<taskVars, streamVars, toolVars, memVars>>
    \/ worker_step /\ UNCHANGED <<taskVars, streamVars, toolVars, memVars>>
    \/ worker_put /\ UNCHANGED <<taskVars, streamVars, toolVars, memVars>>
    \/ worker_exit /\ UNCHANGED <<taskVars, streamVars, toolVars, memVars>>
    \/ join_returns /\ UNCHANGED <<taskVars, streamVars, toolVars, memVars>>
    \/ join_expires /\ UNCHANGED <<taskVars, streamVars, toolVars, memVars>>
    \/ wrapper_finish /\ UNCHANGED <<taskVars, streamVars, toolVars, memVars>>

SpecInvoke == Init /\ [][NextInvoke]_vars

\* The caller's thread runs and its clock advances: a join with a budget
\* returns, and the wrapper goes on after it.
FairInvoke ==
    /\ WF_vars(join_returns /\ UNCHANGED <<taskVars, streamVars, toolVars, memVars>>)
    /\ WF_vars(join_expires /\ UNCHANGED <<taskVars, streamVars, toolVars, memVars>>)
    /\ WF_vars(wrapper_finish /\ UNCHANGED <<taskVars, streamVars, toolVars, memVars>>)

FairSpecInvoke == SpecInvoke /\ FairInvoke

(***************************************************************************)
(* Claims on task decomposition.                                           *)
(***************************************************************************)
AllNoAction(plan) == \A i \in 1..Len(plan) : plan[i].action = "no_action"

IsDecomposition == call.op \in {"create_task", "update_task"}

\* C1: for every plan of N >= 0 steps that are all NO_ACTION, create_task
\* persists exactly N sub-tasks for the new task, step i becoming the sub-task
\* of order i with status INIT, and the task's status stays INIT.
C1_CreateTaskDecomposes ==
    (call.op = "create_task" /\ AllNoAction(call.plan)) =>
        LET subs == SubTasksOf(subTasks, call.task_id) IN
        /\ call.outcome = "returned"
        /\ Len(subs) = Len(call.plan)
        /\ \A i \in 1..Len(subs) :
              /\ subs[i].order = i
              /\ subs[i].sub_task = Strip(call.plan[i].task)
              /\ subs[i].status = "init"
        /\ tasks[call.task_id].status = "init"

C1_Witness ==
    /\ call.op = "create_task"
    /\ AllNoAction(call.plan)
    /\ Len(call.plan) >= 2
    /\ call.plan[1].task # call.plan[2].task
    /\ Len(SubTasksOf(subTasks, call.task_id)) = Len(call.plan)

\* C2: for every plan with at least one step that is not NO_ACTION,
\* create_task creates no sub-task, sets the task's status to ACTION_REQUIRED
\* and returns normally.
C2_ActionRequiredBranch ==
    (call.op = "create_task" /\ ~AllNoAction(call.plan)) =>
        /\ SubTasksOf(subTasks, call.task_id) = << >>
        /\ tasks[call.task_id].status = "action_required"
        /\ call.outcome = "returned"

\* C3: after any sequence of create_task and update_task calls the orders of
\* the sub-tasks of each task are 1..k in plan-step order, with no duplicate
\* and no gap.
C3_DenseOrder ==
    \A id \in TaskIds :
        LET subs == SubTasksOf(subTasks, id) IN
        \A i \in 1..Len(subs) : subs[i].order = i

C5_AllOrNothing ==
    IsDecomposition => call.persisted \in {0, Len(call.plan)}

(***************************************************************************)
(* Claims on the stream.                                                   *)
(***************************************************************************)
\* The event a yielded line holds, read back from its keys and values.
EventOf(line) ==
    IF line[2] = "token"
    THEN [type |-> line[2], data |-> line[4]]
    ELSE [type |-> line[2], tool |-> line[4], tool_input |-> line[6]]

EventsOf(lines) == [i \in 1..Len(lines) |-> EventOf(lines[i])]

AgentBuilt == sent.op = "send_message" /\ sent.outcome = "agent"

RegistryNames == { registry[i].name : i \in DOMAIN registry }

\* C8: the tool list send_message resolves never holds a tool that is absent
\* from the registry, also when that tool's name is configured on the
\* project; a configured name the registry does not know is dropped without
\* an error.
C8_ResolvedToolsInRegistry ==
    /\ AgentBuilt =>
          \A i \in DOMAIN sent.tools :
              \E j \in DOMAIN registry : registry[j] = sent.tools[i]
    /\ (sent.op = "send_message"
            /\ ConversationProject[sent.conversation_id] \in ProjectIds)
          => sent.outcome = "agent"

C8_Witness ==
    /\ AgentBuilt
    /\ "get_weather" \in sent.tool_names
    /\ "web_search_tool" \in sent.tool_names
    /\ Len(sent.tools) = 1
    /\ sent.tools[1].name = "web_search_tool"

\* C9: for a project with zero configured tools the resolved tool list holds
\* exactly the default tool get_current_datetime and nothing else.
C9_ZeroConfiguredGivesDefault ==
    (AgentBuilt /\ sent.tool_names = {}) =>
        /\ Len(sent.tools) = 1
        /\ sent.tools[1].name = "get_current_datetime"

\* C10: for every project and every registry content the tool list handed to
\* the agent is non-empty: whenever no configured name is a registry name,
\* exactly one default tool is injected.
C10_AgentNeverWithoutTools ==
    AgentBuilt =>
        /\ Len(sent.tools) >= 1
        /\ (sent.tool_names \cap RegistryNames = {}) => Len(sent.tools) = 1

\* The call has come back to the agent loop.
CallReturned == ipc = "returned"

\* C11: for every handler of the registry, a call whose body raises returns
\* a string describing the error; the exception never passes the boundary of
\* the handler into the agent loop.
C11_RaisingBodyYieldsString ==
    (CallReturned /\ inv.tool \in AgenticTools
        /\ inv.behaviour \in {"Exception", "BaseException"})
      => received.kind = "string"

\* A handler with handle_exceptions applied over timeout(seconds).
HasTimeoutBudget(tool) == Decorators(tool) = <<"handle_exceptions", "timeout">>

TimeoutString ==
    [kind |-> "string", class |-> "TimeoutException",
     message |-> "Function timed out after 60 seconds"]

\* C12: a call of a handler with a timeout budget whose body does not finish
\* always comes back, and what the caller receives is the string that names
\* the timeout, never an exception.
C12_TimeoutCallTerminates ==
    /\ [](CallReturned /\ HasTimeoutBudget(inv.tool) /\ inv.behaviour = "hang"
            => received = TimeoutString)
    /\ ((ipc = "join" /\ HasTimeoutBudget(inv.tool)) ~> CallReturned)

C12_Witness ==
    /\ CallReturned
    /\ HasTimeoutBudget(inv.tool)
    /\ inv.behaviour = "hang"
    /\ bsteps = MaxBodySteps
    /\ wstate = "terminated"
    /\ received = TimeoutString

\* The call was reported as timed out.
ReportedTimedOut ==
    CallReturned /\ received.class \in {"TimeoutException", "TimeoutError"}

\* C13: once a call is reported as timed out, the process or thread that ran
\* the body has been terminated and takes no further step, for timeout and
\* for time_limit alike.
C13_TimedOutContextStopped ==
    ReportedTimedOut => wstate \in {"terminated", "exited"}

\* send_message was called on a conversation whose project exists.
SentOnProject ==
    sent.op = "send_message" /\ ConversationProject[sent.conversation_id] \in ProjectIds

\* C14: with the streaming flag false, send_message builds the engine, invokes
\* it once and yields exactly one item, which holds the answer text and
\* intermediate_steps: every tool invocation (name, arguments, output) in
\* invocation order.
C14_NonStreamingYieldsOneItem ==
    (SentOnProject /\ ~sent.stream) =>
        /\ sent.invoked
        /\ sent.items = <<[response |-> sent.run.output,
                           intermediate_steps |->
                               StepDicts(sent.run.intermediate_steps)]>>

\* The (name, arguments, output) records that leave send_message.
RetainedTrace ==
    IF sent.items = << >> THEN << >> ELSE sent.items[1].intermediate_steps

\* C15: the ordered trace of tool invocations (name, arguments, raw output) is
\* retained in either mode: after a completed invocation, streaming or not,
\* the whole trace of that invocation is available.
C15_TraceRetainedInBothModes ==
    (SentOnProject /\ sent.invoked) =>
        RetainedTrace = StepDicts(sent.run.intermediate_steps)

\* C18: a send_message by a user on a conversation another user owns does not
\* invoke the agent and opens no memory of that conversation.
C18_ScopedByOwnership ==
    (SentOnProject /\ sent.user_id # ConversationOwner[sent.conversation_id]) =>
        /\ ~sent.invoked
        /\ sent.memory = "None"

\* C20: the registry is built once and never changes afterwards: every
\* get_all_tools(), the two inside one send_message included, returns the
\* same handlers.
C20_RegistryBuiltOnce == [][registry' = registry]_vars

\* The last call was create_task or update_task.
TaskCall == call.op \in {"create_task", "update_task"}

\* C19: create_task and update_task call the planner once and never again; if
\* that call fails the failure reaches the caller, no sub-task is created and
\* no task changes its status (a task create_task has just stored is INIT).
\* An update_task of an unknown id raises before the planner is called.
C19_OnePlanningCallNoRetry ==
    /\ [](TaskCall =>
            /\ call.planner_calls <= 1
            /\ get_by_id(tasks, call.task_id).present => call.planner_calls = 1
            /\ call.outcome = "PlanningFailure" =>
                  call.persisted = 0 /\ ~call.sub_task_created)
    /\ [][(call'.op \in {"create_task", "update_task"}
             /\ call'.outcome = "PlanningFailure")
           => /\ subTasks' = subTasks
              /\ \A id \in TaskIds :
                    /\ tasks[id].present =>
                          tasks'[id].present /\ tasks'[id].status = tasks[id].status
                    /\ (~tasks[id].present /\ tasks'[id].present) =>
                          tasks'[id].status = TaskStatusEnum.INIT]_vars

C19_Witness ==
    /\ call.op = "update_task"
    /\ call.outcome = "PlanningFailure"
    /\ call.planner_calls = 1
    /\ Len(subTasks) > 0

\* s is an initial segment of t.
IsPrefix(s, t) == Len(s) <= Len(t) /\ SubSeq(t, 1, Len(s)) = s

\* How often the human message of the invocation's own turn is in a log.
OwnTurns(messages) ==
    Cardinality({ i \in DOMAIN messages : messages[i] = Turn[1] })

NumbersIn(text) == SelectSeq(text, LAMBDA c : c \in {"1", "2", "3", "4"})

\* C22: for every plan with k >= 1 steps whose action is not NO_ACTION the
\* decomposition returns action descriptions with one entry per such step,
\* in plan order, numbered 1..k; NO_ACTION steps add no entry.
C22_NumberedDescriptions ==
    (TaskCall /\ get_by_id(tasks, call.task_id).present
        /\ ActionSteps(call.plan) # {})
      => /\ call.outcome = "returned"
         /\ NumbersIn(call.action_descriptions)
              = [i \in 1..Cardinality(ActionSteps(call.plan)) |-> ToString(i)]

\* The names of the handlers of a tool list.
NamesOf(tools) == { tools[i].name : i \in DOMAIN tools }

\* C23: send_message on a conversation that does not exist, or whose project
\* does not exist, raises a not-found error before any tool is resolved, any
\* memory is opened and the agent is built or invoked, and changes nothing.
C23_NotFoundBeforeAnyWork ==
    [][(/\ sent' # sent
        /\ sent'.op = "send_message"
        /\ ConversationProject[sent'.conversation_id] \notin ProjectIds)
       => /\ sent'.outcome \in {"Exception", "ValueError"}
          /\ sent'.tools = << >>
          /\ sent'.memory = "None"
          /\ ~sent'.invoked
          /\ sent'.tokens = << >>
          /\ sent'.items = << >>
          /\ registry' = registry
          /\ projectTools' = projectTools]_vars

C23_Witness ==
    /\ sent.op = "send_message"
    /\ sent.conversation_id = "c3"
    /\ sent.outcome = "ValueError"
    /\ projectTools["p1"] # {}

\* C24: the resolved tools are those of the registry whose name equals a
\* configured function_name, compared exactly: every configured name that is
\* a registry name is resolved, and a configured name that differs from a
\* registry name only in letter case resolves nothing.
C24_ExactCaseSensitiveMatch ==
    (AgentBuilt /\ sent.tool_names \cap RegistryNames # {}) =>
        NamesOf(sent.tools) = sent.tool_names \cap RegistryNames

C24_Witness ==
    /\ AgentBuilt
    /\ "web_search_tool" \in RegistryNames
    /\ sent.tool_names = {"Web_Search_Tool", "ethereum_blockchain_tool"}
    /\ NamesOf(sent.tools) = {"ethereum_blockchain_tool"}

\* C25: timeout's wrapper reports a timeout only if the body was still
\* running when the budget expired; a body that has completed by then has its
\* result returned, however the worker's put and exit interleave with the
\* parent's join and read.
C25_TimeoutOnlyIfStillRunning ==
    (ReportedTimedOut /\ Isolation(inv.tool) = "process") =>
        inv.at_join = "running"

\* The lines of the events emitted so far.
EmittedLines == [i \in 1..emitted |-> json_line(script[i])]

\* C27: when the agent invocation fails, stream yields every event enqueued
\* before the failure, in producer order, and only then raises the exception
\* to the consumer; a stream that ends normally had no failure.
C27_FailureAfterEnqueuedEvents ==
    /\ [](cpc = "raised" => (pstate = "raised" /\ yielded = EmittedLines
                                /\ queue = << >>))
    /\ [](cpc = "finished" => pstate = "done")
    /\ (pstate = "failed" ~> cpc = "raised")

C27_Witness ==
    /\ cpc = "raised"
    /\ emitted = 2
    /\ Len(script) = 3
    /\ Len(yielded) = 2
    /\ yielded[1] # yielded[2]

\* C28: the queue never blocks the producer nor makes it fail: a callback
\* enqueues its event whatever the number of pending items, so the queue holds
\* exactly the emitted events not yet consumed, in order, also with a
\* consumer that is slow or has stopped.
C28_ProducerNeverBlocked ==
    /\ Len(queue) = emitted - Len(yielded)
    /\ queue = [i \in 1..(emitted - Len(yielded)) |->
                  json_line(script[Len(yielded) + i])]
    /\ (pstate = "running" /\ emitted < Len(script) /\ (memory \/ Suspended))
          => ENABLED producer_emit

C28_Witness ==
    /\ cpc = "stopped"
    /\ yielded = << >>
    /\ Len(queue) = MaxEvents
    /\ emitted = MaxEvents

\* C26: a stream() call yields only the events of its own invocation: what an
\* earlier invocation on the same engine left in the queue is discarded at
\* the start, and no event of an earlier invocation that still runs, its
\* consumer having stopped, is yielded by the later call.
C26_OnlyOwnEvents ==
    prev # NoPrev =>
        /\ Len(yielded) <= emitted
        /\ \A i \in 1..Len(yielded) : yielded[i] = json_line(script[i])

\* C29: under every interleaving of concurrent constructions of MemoryService
\* exactly one object and one database connection are made, and every
\* construction returns that object.
C29_SingletonUnderConcurrency ==
    /\ MemoryService.instances <= 1
    /\ MemoryService.connections <= 1
    /\ \A t \in Threads :
          /\ constructing[t] # "AttributeError"
          /\ constructing[t] = "returned" =>
                (MemoryService.instances = 1 /\ MemoryService.connections = 1)

\* C30: no two handlers of the registry share a tool name, so the tool list
\* resolved for a project holds at most one handler per configured
\* function_name.
C30_OneHandlerPerName ==
    /\ \A i, j \in DOMAIN registry :
          registry[i].name = registry[j].name => i = j
    /\ AgentBuilt =>
          \A n \in sent.tool_names :
              Cardinality({ i \in DOMAIN sent.tools : sent.tools[i].name = n }) <= 1

====
